---------------------------- MODULE Spec2Model ----------------------------
(***************************************************************************)
(* Model of the reel generator's background-music stage                    *)
(* (src/modules/music_generator.py), of the configuration it reads         *)
(* (src/config.py), and of the pipeline that calls it (src/main.py) with   *)
(* its generation log and approval gate (src/modules/approval_gate.py).    *)
(*                                                                         *)
(* Numbers.  Python floats are modelled in fixed point:                    *)
(*   - a duration is an integer number of 1/DurDen seconds;                *)
(*   - an amplitude is an integer number of 1/AmpScale (0.8 is 8000);      *)
(*   - math.sin is a rational approximation on a 360-step phase circle     *)
(*     that returns thousandths.                                           *)
(* The sample rate is scaled down from the program's 44100 so that a       *)
(* whole buffer is a value TLC can enumerate; every quantity the code      *)
(* derives from SAMPLE_RATE (segment length, crossfade and fade windows)   *)
(* is derived from the scaled rate by the code's own formulas.             *)
(***************************************************************************)
EXTENDS Integers, Sequences, FiniteSets, TLC

\* ------------------------------------------------------------------------
\* Bounds of the model
\* ------------------------------------------------------------------------
\* frames per second (music_generator.py:28 sets 44100; scaled down)
SAMPLE_RATE == 4
\* duration grid: a duration q stands for q / DurDen seconds
DurDen == 8
\* largest duration argument, in grid units
MaxDur == 44
\* how many times the caller invokes the entry point with the same arguments
MaxRuns == 2
\* largest number of scenes of a script handed to assemble_reel
MaxScenes == 2

\* turns of the approval prompt that end with neither A nor R, per run
MaxPrompts == 2

\* ------------------------------------------------------------------------
\* Fixed-point scales
\* ------------------------------------------------------------------------
AmpScale == 10000
SinScale == 1000
PhaseSteps == 360

None == "None"
\* duration=None, and a scene without a "duration" key
NoDuration == -1000

\* int(a / b): Python's int() truncates toward zero
PyInt(a, b) ==
  IF a >= 0 THEN a \div b ELSE -((-a) \div b)

\* round(a / b): Python's round() rounds to nearest, ties to the even integer
PyRound(a, b) ==
  LET f == a \div b
      r == a - f * b
  IN  IF 2 * r < b THEN f
      ELSE IF 2 * r > b THEN f + 1
      ELSE IF f % 2 = 0 THEN f ELSE f + 1

Min(a, b) == IF a < b THEN a ELSE b
Max(a, b) == IF a > b THEN a ELSE b

\* seq[:n] for a Python list
PySlice(seq, n) ==
  IF n >= 0 THEN SubSeq(seq, 1, Min(n, Len(seq)))
  ELSE SubSeq(seq, 1, Max(Len(seq) + n, 0))

\* ------------------------------------------------------------------------
\* config.py
\* ------------------------------------------------------------------------
\* MUSIC_FADE_IN = 1.0 and MUSIC_FADE_OUT = 2.0 seconds, in grid units
MUSIC_FADE_IN == 1 * DurDen
MUSIC_FADE_OUT == 2 * DurDen
\* SCENE_DURATION = 5.0 seconds, in grid units
SCENE_DURATION == 5 * DurDen

\* ------------------------------------------------------------------------
\* MOOD_CHORDS: frequencies in hundredths of a hertz
\* ------------------------------------------------------------------------
Moods == <<"calm", "inspirational", "nostalgic", "epic", "melancholic", "dreamy">>

MoodSet == {Moods[i] : i \in 1..Len(Moods)}

MOOD_CHORDS ==
  [m \in MoodSet |->
    CASE m = "calm" ->
           << <<26163, 32963, 39200>>, <<34923, 44000, 52325>>,
              <<29366, 36999, 44000>>, <<39200, 49388, 58733>> >>
      [] m = "inspirational" ->
           << <<26163, 32963, 39200>>, <<29366, 36999, 44000>>,
              <<34923, 44000, 52325>>, <<39200, 49388, 58733>> >>
      [] m = "nostalgic" ->
           << <<22000, 26163, 32963>>, <<34923, 44000, 52325>>,
              <<26163, 32963, 39200>>, <<32963, 39200, 49388>> >>
      [] m = "epic" ->
           << <<29366, 36999, 44000>>, <<17461, 22000, 26163>>,
              <<26163, 32963, 39200>>, <<19600, 24694, 29366>> >>
      [] m = "melancholic" ->
           << <<22000, 26163, 32963>>, <<32963, 39200, 49388>>,
              <<29366, 34923, 44000>>, <<22000, 27718, 32963>> >>
      [] m = "dreamy" ->
           << <<26163, 39200, 49388>>, <<34923, 52325, 65925>>,
              <<29366, 44000, 55437>>, <<39200, 58733, 73999>> >> ]

\* ------------------------------------------------------------------------
\* _synthesize_ambient: the arithmetic
\* ------------------------------------------------------------------------
\* a * n / d in fixed point, rounded toward zero
Scale(a, n, d) == PyInt(a * n, d)

\* math.sin(2 * pi * p / PhaseSteps) in thousandths (Bhaskara's rational form)
SinMilli(p) ==
  LET h == PhaseSteps \div 2
      q == IF p <= h THEN p ELSE p - h
      v == (4 * SinScale * q * (h - q)) \div (40500 - q * (h - q))
  IN  IF p <= h THEN v ELSE -v

\* phase of  freq * mult * t  with t = i / SAMPLE_RATE, freq in 1/100 Hz and
\* mult in halves: the fractional part of the turn count, in phase steps
Phase(freq, mult2, i) ==
  LET denom == 200 * SAMPLE_RATE
  IN  (((freq * mult2 * i) % denom) * PhaseSteps) \div denom

\* 0.15 sin(2 pi f t) + 0.05 sin(2 pi f 2 t) + 0.08 sin(2 pi f 0.5 t),
\* in units of 1 / (10 * AmpScale)
Voice(freq, i) ==
    15 * SinMilli(Phase(freq, 2, i))
  + 5 * SinMilli(Phase(freq, 4, i))
  + 8 * SinMilli(Phase(freq, 1, i))

\* the sum over the three notes of the chord
ChordSum(chord, i) ==
  (Voice(chord[1], i) + Voice(chord[2], i) + Voice(chord[3], i)) \div 10

\* lfo = 1.0 + 0.03 sin(2 pi 0.2 t); the sample times lfo
Lfo(sample, i) ==
  LET denom == 5 * SAMPLE_RATE
      p == ((i % denom) * PhaseSteps) \div denom
  IN  sample + Scale(sample, 3 * SinMilli(p), 100 * SinScale)

\* crossfade_samples = int(0.5 * SAMPLE_RATE)
crossfade_samples == PyInt(SAMPLE_RATE, 2)

\* mutant: two separate ifs, so that a frame in both windows gets both ramps
CrossfadeBoth(sample, i, spc) ==
  LET a == IF i < crossfade_samples
           THEN Scale(sample, i, crossfade_samples) ELSE sample
  IN  IF i > spc - crossfade_samples
      THEN Scale(a, spc - i, crossfade_samples) ELSE a

\* the crossfade branch of frame i of a segment of spc frames
Crossfade(sample, i, spc) ==
  IF i < crossfade_samples THEN Scale(sample, i, crossfade_samples)
  ELSE IF i > spc - crossfade_samples
       THEN Scale(sample, spc - i, crossfade_samples)
       ELSE sample

\* sample = max(-0.8, min(0.8, sample))
Clamp(sample) == Max(-(8 * AmpScale) \div 10, Min((8 * AmpScale) \div 10, sample))

\* mutant: the right channel is the sample itself
FrameMono(chord, i, spc) ==
  LET sample == Clamp(Crossfade(Lfo(ChordSum(chord, i), i), i, spc))
  IN  <<sample, sample>>

\* (left, right) of local frame i of a segment
Frame(chord, i, spc) ==
  LET sample == Clamp(Crossfade(Lfo(ChordSum(chord, i), i), i, spc))
  IN  <<sample, Scale(sample, 95, 100)>>

\* mutant: the default of the lookup is the dreamy progression
ChordsForDreamy(mood) ==
  IF mood \in DOMAIN MOOD_CHORDS THEN MOOD_CHORDS[mood] ELSE MOOD_CHORDS["dreamy"]

\* chords = MOOD_CHORDS.get(mood, MOOD_CHORDS["calm"])
ChordsFor(mood) ==
  IF mood \in DOMAIN MOOD_CHORDS THEN MOOD_CHORDS[mood] ELSE MOOD_CHORDS["calm"]

\* total_samples = int(duration * SAMPLE_RATE)
total_samples(duration) == PyInt(duration * SAMPLE_RATE, DurDen)

\* mutant: the chord length rounded up instead of truncated
samples_per_chord_ceil(duration, chords) ==
  (duration * SAMPLE_RATE + DurDen * Len(chords) - 1) \div (DurDen * Len(chords))

\* samples_per_chord = int(duration / len(chords) * SAMPLE_RATE)
samples_per_chord(duration, chords) ==
  PyInt(duration * SAMPLE_RATE, DurDen * Len(chords))

\* mutant: t runs on from segment to segment instead of restarting
ChordFramesRunningTime(buf, chords, spc) ==
  LET n == IF spc > 0 THEN spc ELSE 0
  IN  buf \o [k \in 1..(Len(chords) * n) |->
               LET chord_idx == (k - 1) \div n
                   i == (k - 1) % n
               IN  <<Clamp(Crossfade(Lfo(ChordSum(chords[chord_idx + 1], k - 1), k - 1), i, spc)),
                     Scale(Clamp(Crossfade(Lfo(ChordSum(chords[chord_idx + 1], k - 1), k - 1), i, spc)), 95, 100)>>]

\* the frames the chord loop appends to buf, segment after segment
ChordFrames(buf, chords, spc) ==
  LET n == IF spc > 0 THEN spc ELSE 0
  IN  buf \o [k \in 1..(Len(chords) * n) |->
               LET chord_idx == (k - 1) \div n
                   i == (k - 1) % n
               IN  Frame(chords[(chord_idx % Len(chords)) + 1], i, spc)]

\* mutant: the padding loop left out
NoPadding(buf, total) == buf

\* while len(audio_data) < total_samples: audio_data.append((0.0, 0.0))
PadSilence(buf, total) ==
  IF Len(buf) < total
  THEN buf \o [k \in 1..(total - Len(buf)) |-> <<0, 0>>]
  ELSE buf

fade_in_samples == PyInt(MUSIC_FADE_IN * SAMPLE_RATE, DurDen)
fade_out_samples == PyInt(MUSIC_FADE_OUT * SAMPLE_RATE, DurDen)

\* mutant: the ramp starts one step up, ratio = (i + 1) / fade_in_samples
FadeInFromOne(buf) ==
  [k \in 1..Len(buf) |->
     IF k - 1 < Min(fade_in_samples, Len(buf))
     THEN <<Scale(buf[k][1], k, fade_in_samples),
            Scale(buf[k][2], k, fade_in_samples)>>
     ELSE buf[k]]

\* ratio = i / fade_in_samples applied to frame i (0-based) of the buffer
FadeIn(buf) ==
  [k \in 1..Len(buf) |->
     IF k - 1 < Min(fade_in_samples, Len(buf))
     THEN <<Scale(buf[k][1], k - 1, fade_in_samples),
            Scale(buf[k][2], k - 1, fade_in_samples)>>
     ELSE buf[k]]

\* mutant: ratio = i, the division by fade_out_samples left out
FadeOutUndivided(buf) ==
  [k \in 1..Len(buf) |->
     LET i == Len(buf) - k
     IN  IF i < Min(fade_out_samples, Len(buf))
         THEN <<buf[k][1] * i, buf[k][2] * i>>
         ELSE buf[k]]

\* ratio = i / fade_out_samples applied to frame len - 1 - i
FadeOut(buf) ==
  [k \in 1..Len(buf) |->
     LET i == Len(buf) - k
     IN  IF i < Min(fade_out_samples, Len(buf))
         THEN <<Scale(buf[k][1], i, fade_out_samples),
                Scale(buf[k][2], i, fade_out_samples)>>
         ELSE buf[k]]

\* audio_data as it stands when the WAV file is opened; buf is the list the
\* function starts from (audio_data = [])
Synthesize(buf, duration, mood) ==
  LET chords == ChordsFor(mood)
  IN  FadeOut(FadeIn(PadSilence(
        ChordFrames(buf, chords, samples_per_chord(duration, chords)),
        total_samples(duration))))

\* mutant: the full-scale factor is 255 (8-bit) instead of 32767
Quantize8Bit(a) == Max(-32768, Min(32767, PyInt(a * 255, AmpScale)))

\* mutant: the product rounded down (toward minus infinity)
QuantizeFloor(a) == Max(-32768, Min(32767, (a * 32767) \div AmpScale))

\* int(x * 32767) clamped to [-32768, 32767]
Quantize(a) == Max(-32768, Min(32767, PyInt(a * 32767, AmpScale)))

\* the frames handed to writeframes, in order
WavFrames(buf, duration) ==
  LET out == PySlice(buf, total_samples(duration))
  IN  [k \in 1..Len(out) |-> <<Quantize(out[k][1]), Quantize(out[k][2])>>]

\* ------------------------------------------------------------------------
\* _detect_mood
\* ------------------------------------------------------------------------
UpperChars == "ABCDEFGHIJKLMNOPQRSTUVWXYZ"
LowerChars == "abcdefghijklmnopqrstuvwxyz"

LowerChar(c) ==
  IF \E i \in 1..Len(UpperChars) : SubSeq(UpperChars, i, i) = c
  THEN LET i == CHOOSE j \in 1..Len(UpperChars) : SubSeq(UpperChars, j, j) = c
       IN  SubSeq(LowerChars, i, i)
  ELSE c

RECURSIVE Lower(_)
\* str.lower()
Lower(s) ==
  IF Len(s) = 0 THEN ""
  ELSE LowerChar(SubSeq(s, 1, 1)) \o Lower(SubSeq(s, 2, Len(s)))

\* kw in tone
Contains(kw, tone) ==
  \E i \in 1..(Len(tone) - Len(kw) + 1) : SubSeq(tone, i, i + Len(kw) - 1) = kw

\* the dict literal, in insertion order
mood_keywords ==
  << <<"calm", <<"calm", "peaceful", "soft", "gentle", "ambient", "lo-fi", "lofi", "chill">> >>,
     <<"inspirational", <<"inspirational", "uplifting", "hope", "motivational", "bright">> >>,
     <<"nostalgic", <<"nostalgic", "memory", "vintage", "retro", "warm">> >>,
     <<"epic", <<"epic", "cinematic", "dramatic", "powerful", "intense", "orchestral">> >>,
     <<"melancholic", <<"sad", "melancholic", "emotional", "piano", "somber", "dark">> >>,
     <<"dreamy", <<"dreamy", "ethereal", "floating", "spacey", "atmospheric">> >> >>

\* mutant: a default that is no mood key
DefaultNeutral == "neutral"

\* the value returned when no keyword matches
DefaultMood == "calm"

\* any(kw in tone for kw in keywords)
AnyKeyword(keywords, tone) ==
  \E j \in 1..Len(keywords) : Contains(keywords[j], tone)

\* mutant: the loop does not stop at the first match, the last match wins
ScanMoodsLastMatch(tone, k) ==
  LET hits == {j \in k..Len(mood_keywords) : AnyKeyword(mood_keywords[j][2], tone)}
  IN  IF hits = {} THEN DefaultMood
      ELSE mood_keywords[CHOOSE j \in hits : \A h \in hits : h <= j][1]

RECURSIVE ScanMoods(_, _)
\* the for loop over mood_keywords.items(), from entry k on
ScanMoods(tone, k) ==
  IF k > Len(mood_keywords) THEN DefaultMood
  ELSE IF AnyKeyword(mood_keywords[k][2], tone) THEN mood_keywords[k][1]
  ELSE ScanMoods(tone, k + 1)

_detect_mood(audio_tone) == ScanMoods(Lower(audio_tone), 1)

\* ------------------------------------------------------------------------
\* _find_custom_music
\* ------------------------------------------------------------------------
\* a directory is [exists, files]
NoDir == [exists |-> FALSE, files |-> {}]
Dir(files) == [exists |-> TRUE, files |-> files]

\* mutant: the extensions tried in the opposite order
MusicExtensionsReversed == <<".m4a", ".ogg", ".wav", ".mp3">>

\* for ext in [".mp3", ".wav", ".ogg", ".m4a"]
MusicExtensions == <<".mp3", ".wav", ".ogg", ".m4a">>

\* music_dir.glob("*" + ext): the names ending in ext
Glob(dir, ext) ==
  {f \in dir : Len(f) >= Len(ext) /\ SubSeq(f, Len(f) - Len(ext) + 1, Len(f)) = ext}

RECURSIVE FirstGlob(_, _)
FirstGlob(dir, k) ==
  IF k > Len(MusicExtensions) THEN {None}
  ELSE IF Glob(dir, MusicExtensions[k]) # {} THEN Glob(dir, MusicExtensions[k])
  ELSE FirstGlob(dir, k + 1)

\* mutant: only the first extension is looked for
FindMp3Only(dir) ==
  IF dir.exists /\ Glob(dir.files, ".mp3") # {}
  THEN Glob(dir.files, ".mp3")
  ELSE {None}

\* the values _find_custom_music may return: files[0] is whichever file the
\* directory listing yields first
_find_custom_music(dir) ==
  IF ~dir.exists THEN {None} ELSE FirstGlob(dir.files, 1)

\* ------------------------------------------------------------------------
\* State
\* ------------------------------------------------------------------------
VARIABLES
  entry,       \* the function the caller invokes
  script,      \* argument script: [audio_tone, has_scenes, scenes]
  duration,    \* argument duration in grid units, or NoDuration
  mood,        \* argument mood of a direct _synthesize_ambient call, or None
  music_dir,   \* config.MUSIC_DIR: whether it exists, the file names in it
  out_file,    \* output_dir/background_music.wav: whether it exists, its frames
  audio_data,  \* the sample buffer of the latest synthesis
  rng,         \* state of the process-global random generator
  pc,          \* "ready", "returned" or "raised": how the latest call ended
  result,      \* the value returned, or the name of the exception raised
  invoked,     \* the components the latest call invoked
  synth_args,  \* the (duration, mood) the latest synthesis was invoked with
  runs,        \* calls made so far
  first_out,   \* <<>>, or the one record of the first synthesis that completed
  \* run_pipeline (main.py)
  pipe_pc,         \* where run_pipeline stands
  custom_script,   \* argument: whether a custom script was passed
  auto_approve,    \* argument auto_approve
  gen_log,         \* the GenerationLog of the run
  image_paths,     \* local image_paths
  narration_paths, \* local narration_paths
  music_path,      \* local music_path
  final_video,     \* local final_video
  trace,           \* the stages entered and left so far, in order
  \* assemble_reel (assembly_engine.py): the audio timeline
  asm_pc,               \* where assemble_reel stands
  scene_durations,      \* list scene_durations, in tenths of a second
  narration_lengths,    \* duration of each scene's narration file, or NoDuration
  music_length,         \* duration of the music file, or NoDuration
  scene_start_times,    \* list scene_start_times
  total_video_duration, \* final_video.duration
  narration_i,          \* index i of the narration loop (from 0)
  narration_cursor,     \* earliest time the next narration can start
  narration_clips,      \* the narration clips appended to audio_clips
  music_layer,          \* the music clip appended to audio_clips, if any
  approved,             \* what request_approval returned: "True", "False", or None
  prompts               \* turns of the interactive loop of request_approval

asmVars == <<asm_pc, scene_durations, narration_lengths, music_length,
             scene_start_times, total_video_duration, narration_i,
             narration_cursor, narration_clips, music_layer>>

\* request_approval's own state
gateVars == <<approved, prompts>>

pipeVars == <<pipe_pc, custom_script, auto_approve, gen_log, image_paths,
              narration_paths, music_path, final_video, trace, approved,
              prompts>>

vars == <<entry, script, duration, mood, music_dir, out_file, audio_data, rng,
          pc, result, invoked, synth_args, runs, first_out, pipe_pc,
          custom_script, auto_approve, gen_log, image_paths, narration_paths,
          music_path, final_video, trace, asm_pc, scene_durations,
          narration_lengths, music_length, scene_start_times,
          total_video_duration, narration_i, narration_cursor,
          narration_clips, music_layer, approved, prompts>>

Absent == [exists |-> FALSE, frames |-> <<>>]
File(frames) == [exists |-> TRUE, frames |-> frames]
NoArgs == [duration |-> NoDuration, mood |-> None]
OutputPath == "temp/background_music.wav"

\* ------------------------------------------------------------------------
\* GenerationLog (approval_gate.py)
\* ------------------------------------------------------------------------
StepNames ==
  {"script_generation", "visual_generation", "voice_generation",
   "music_generation", "assembly"}

\* GenerationLog(): log_data as __init__ leaves it; a step that is no key
\* of pipeline_steps is "absent"; saves counts the calls of _save
NewLog ==
  [ status |-> "in_progress",
    pipeline_steps |-> [st \in StepNames |-> "absent"],
    timings |-> {},
    script_set |-> FALSE,
    assets |-> [images |-> <<>>, narrations |-> <<>>, music |-> None,
                output_video |-> None],
    approval |-> "None",
    errors |-> <<>>,
    saves |-> 0 ]

start_step(log, step_name) ==
  [log EXCEPT !.pipeline_steps[step_name] = "running"]

complete_step(log, step_name) ==
  [log EXCEPT !.pipeline_steps[step_name] = "completed",
              !.timings = @ \cup {step_name}]

\* mutant: the step is marked failed but nothing is appended to errors
fail_step_unlisted(log, step_name, error) ==
  [log EXCEPT !.pipeline_steps[step_name] = "failed"]

fail_step(log, step_name, error) ==
  [log EXCEPT !.pipeline_steps[step_name] = "failed",
              !.errors = Append(@, [step |-> step_name, error |-> error])]

set_script(log) == [log EXCEPT !.script_set = TRUE]

\* set_assets(images=...): an empty list is not stored
set_assets_images(log, images) ==
  IF images # <<>> THEN [log EXCEPT !.assets.images = images] ELSE log

set_assets_narrations(log, narrations) ==
  IF narrations # <<>> THEN [log EXCEPT !.assets.narrations = narrations] ELSE log

set_assets_music(log, music) ==
  IF music # None THEN [log EXCEPT !.assets.music = music] ELSE log

set_assets_output_video(log, output_video) ==
  IF output_video # None THEN [log EXCEPT !.assets.output_video = output_video]
  ELSE log

\* mutant: the status is set and the log is not saved
finalize_not_saved(log, status) ==
  [log EXCEPT !.status = status]

\* mutant: the log is saved with the status it had
finalize_keeps_status(log, status) ==
  [log EXCEPT !.saves = @ + 1]

\* finalize(status): the status is set and the log is saved
finalize(log, status) ==
  [log EXCEPT !.status = status, !.saves = @ + 1]

\* position of run_pipeline: <<"start", step>> before start_step of a step,
\* <<"run", step>> inside its try block, <<"run", "approval">> at the
\* approval gate, <<"end", how>> once the function has returned or raised
\* (how = "none" outside the pipeline)
PipeIdle ==
  /\ pipe_pc = <<"end", "none">>
  /\ custom_script = FALSE
  /\ auto_approve = FALSE
  /\ gen_log = NewLog
  /\ image_paths = <<>>
  /\ narration_paths = <<>>
  /\ music_path = None
  /\ final_video = None
  /\ trace = <<>>
  /\ approved = None
  /\ prompts = 0

\* no music clip in audio_clips
NoLayer == [mixed |-> FALSE, content |-> 0, duration |-> 0]

\* assemble_reel not entered
AsmIdle ==
  /\ asm_pc = "none"
  /\ scene_durations = <<>>
  /\ narration_lengths = <<>>
  /\ music_length = NoDuration
  /\ scene_start_times = <<>>
  /\ total_video_duration = 0
  /\ narration_i = 0
  /\ narration_cursor = 0
  /\ narration_clips = <<>>
  /\ music_layer = NoLayer

\* ------------------------------------------------------------------------
\* Inputs
\* ------------------------------------------------------------------------
Durations == (-2)..MaxDur

MoodArgs == MoodSet \cup {"energetic"}

\* a scene is its "duration" value, NoDuration when the key is missing;
\* audio_tone is None and has_scenes is FALSE when the key is missing
Scripts ==
  { [audio_tone |-> "soft cinematic piano", has_scenes |-> TRUE, scenes |-> <<8, 8>>],
    [audio_tone |-> "Epic Orchestral battle", has_scenes |-> TRUE,
     scenes |-> <<NoDuration, 4>>],
    [audio_tone |-> None, has_scenes |-> TRUE, scenes |-> <<12>>],
    [audio_tone |-> "dark and dreamy", has_scenes |-> FALSE, scenes |-> <<>>] }

NoScript == [audio_tone |-> None, has_scenes |-> FALSE, scenes |-> <<>>]

MusicDirs ==
  { NoDir, Dir({}), Dir({"notes.txt"}), Dir({"theme.mp3"}),
    Dir({"loop.wav", "notes.txt"}),
    Dir({"loop.wav", "theme.mp3", "b.mp3", "x.m4a"}),
    Dir({"x.m4a", "pad.ogg", "cover.jpg"}) }

\* the duration arguments generate_background_music is called with
GbmDurations == {NoDuration, -1, 0, 5, 12, 21}

ToneFragments ==
  UNION {{mood_keywords[k][2][j] : j \in 1..Len(mood_keywords[k][2])} :
           k \in 1..Len(mood_keywords)}
  \cup {"", " ", " battle", "Soft", "EPIC ", "s", "ballad ", "lo fi", "pian"}

ToneTexts ==
  {a \o b : a, b \in ToneFragments}
  \cup {"soft piano ballad", "epic orchestral battle", "A Sad, Warm Memory"}

\* ------------------------------------------------------------------------
\* _synthesize_ambient: the call
\* ------------------------------------------------------------------------
\* mutant: the buffer of the previous call is kept
KeptBuffer == audio_data

\* audio_data = []
NewBuffer == <<>>

\* with wave.open(...) as wav_file: ... writeframes(...) for each frame.
\* The open may fail (the file is untouched), or the write may fail after k
\* frames (the file holds them), or all frames are written.
WriteWav(frames, value) ==
  \/ /\ out_file' = File(frames)
     /\ pc' = "returned"
     /\ result' = value
  \/ /\ out_file' = out_file
     /\ pc' = "raised"
     /\ result' = "OSError"
  \/ \E k \in 0..Len(frames) :
       /\ out_file' = File(SubSeq(frames, 1, k))
       /\ pc' = "raised"
       /\ result' = "OSError"

\* mutant: chords = MOOD_CHORDS[mood], a KeyError for an unknown mood
SynthesizeAmbientKeyError(d, m, value) ==
  IF m \notin DOMAIN MOOD_CHORDS
  THEN /\ pc' = "raised"
       /\ result' = "KeyError"
       /\ UNCHANGED <<out_file, audio_data, rng, synth_args, first_out>>
  ELSE
  \E buf \in {Synthesize(NewBuffer, d, m)} :
  \E frames \in {WavFrames(buf, d)} :
      /\ audio_data' = buf
      /\ rng' = "seed(42)"
      /\ synth_args' = [duration |-> d, mood |-> m]
      /\ WriteWav(frames, value)
      /\ first_out' = IF first_out = <<>> /\ pc' = "returned"
                      THEN <<[audio |-> buf, frames |-> frames]>>
                      ELSE first_out

\* _synthesize_ambient(output_path, d, m); value is what the caller returns
\* once it has completed
SynthesizeAmbient(d, m, value) ==
  \E buf \in {Synthesize(NewBuffer, d, m)} :
  \E frames \in {WavFrames(buf, d)} :
      /\ audio_data' = buf
      /\ rng' = "seed(42)"
      /\ synth_args' = [duration |-> d, mood |-> m]
      /\ WriteWav(frames, value)
      /\ first_out' = IF first_out = <<>> /\ pc' = "returned"
                      THEN <<[audio |-> buf, frames |-> frames]>>
                      ELSE first_out

\* ------------------------------------------------------------------------
\* generate_background_music
\* ------------------------------------------------------------------------
RECURSIVE SumScenesSkipMissing(_)
\* mutant: a scene without a duration counts as nothing
SumScenesSkipMissing(scenes) ==
  IF scenes = <<>> THEN 0
  ELSE (IF Head(scenes) = NoDuration THEN 0 ELSE Head(scenes))
       + SumScenesSkipMissing(Tail(scenes))

\* sum(s.get("duration", config.SCENE_DURATION) for s in scenes) + 2.0
RECURSIVE SumScenes(_)
SumScenes(scenes) ==
  IF scenes = <<>> THEN 0
  ELSE (IF Head(scenes) = NoDuration THEN SCENE_DURATION ELSE Head(scenes))
       + SumScenes(Tail(scenes))

SceneBuffer == 2 * DurDen

\* script.get("audio_tone", "calm").lower()
AudioTone(s) == Lower(IF s.audio_tone = None THEN "calm" ELSE s.audio_tone)

GenerateBackgroundMusic ==
  /\ runs' = runs + 1
  /\ UNCHANGED <<entry, duration, mood, music_dir>>
  /\ \E custom_music \in _find_custom_music(music_dir) :
       IF custom_music # None
       THEN /\ pc' = "returned"
            /\ result' = custom_music
            /\ invoked' = {"_find_custom_music"}
            /\ UNCHANGED <<out_file, audio_data, rng, synth_args, first_out>>
       ELSE IF duration = NoDuration /\ ~script.has_scenes
       THEN /\ pc' = "raised"
            /\ result' = "KeyError"
            /\ invoked' = {"_find_custom_music"}
            /\ UNCHANGED <<out_file, audio_data, rng, synth_args, first_out>>
       ELSE /\ invoked' = {"_find_custom_music", "_detect_mood",
                           "_synthesize_ambient"}
            /\ SynthesizeAmbient(
                 IF duration = NoDuration
                 THEN SumScenes(script.scenes) + SceneBuffer
                 ELSE duration,
                 _detect_mood(AudioTone(script)),
                 OutputPath)

\* a call generate_background_music(script, duration) from outside the
\* pipeline
generate_background_music ==
  /\ entry = "generate_background_music"
  /\ runs < MaxRuns
  /\ GenerateBackgroundMusic
  /\ UNCHANGED script
  /\ UNCHANGED pipeVars
  /\ UNCHANGED asmVars

\* a direct call _synthesize_ambient(output_path, duration, mood)
_synthesize_ambient ==
  /\ entry = "_synthesize_ambient"
  /\ runs < MaxRuns
  /\ runs' = runs + 1
  /\ UNCHANGED <<entry, script, duration, mood, music_dir>>
  /\ invoked' = {"_synthesize_ambient"}
  /\ SynthesizeAmbient(duration, mood, None)
  /\ UNCHANGED pipeVars
  /\ UNCHANGED asmVars

\* other code of the process draws from the global random generator
UseRandom ==
  /\ entry # "_detect_mood"
  /\ rng # "advanced"
  /\ rng' = "advanced"
  /\ UNCHANGED <<entry, script, duration, mood, music_dir, out_file,
                 audio_data, pc, result, invoked, synth_args, runs, first_out>>
  /\ UNCHANGED pipeVars
  /\ UNCHANGED asmVars

Init ==
  /\ \/ /\ entry = "generate_background_music"
        /\ script \in Scripts
        /\ duration \in GbmDurations
        /\ mood = None
        /\ music_dir \in MusicDirs
     \/ /\ entry = "_synthesize_ambient"
        /\ script = NoScript
        /\ duration \in Durations
        /\ mood \in MoodArgs
        /\ music_dir = Dir({})
  /\ out_file = Absent
  /\ audio_data = <<>>
  /\ rng = "unseeded"
  /\ pc = "ready"
  /\ result = None
  /\ invoked = {}
  /\ synth_args = NoArgs
  /\ runs = 0
  /\ first_out = <<>>
  /\ PipeIdle
  /\ AsmIdle

Next ==
  \/ generate_background_music
  \/ _synthesize_ambient
  \/ UseRandom

Spec == Init /\ [][Next]_vars

\* ------------------------------------------------------------------------
\* _detect_mood on its own: the tone text is drawn from ToneTexts
\* ------------------------------------------------------------------------
DetectMood ==
  /\ entry = "_detect_mood"
  /\ pc = "ready"
  /\ pc' = "returned"
  /\ result' = _detect_mood(script.audio_tone)
  /\ invoked' = {"_detect_mood"}
  /\ runs' = runs + 1
  /\ UNCHANGED <<entry, script, duration, mood, music_dir, out_file,
                 audio_data, rng, synth_args, first_out>>
  /\ UNCHANGED pipeVars
  /\ UNCHANGED asmVars

InitMood ==
  /\ entry = "_detect_mood"
  /\ \E t \in ToneTexts :
       script = [audio_tone |-> t, has_scenes |-> FALSE, scenes |-> <<>>]
  /\ duration = NoDuration
  /\ mood = None
  /\ music_dir = Dir({})
  /\ out_file = Absent
  /\ audio_data = <<>>
  /\ rng = "unseeded"
  /\ pc = "ready"
  /\ result = None
  /\ invoked = {}
  /\ synth_args = NoArgs
  /\ runs = 0
  /\ first_out = <<>>
  /\ PipeIdle
  /\ AsmIdle

NextMood == DetectMood

SpecMood == InitMood /\ [][NextMood]_vars

\* ------------------------------------------------------------------------
\* run_pipeline (main.py)
\* ------------------------------------------------------------------------
\* what the stages other than music leave alone
musicVars == <<entry, duration, mood, music_dir, out_file, audio_data, rng,
               pc, result, invoked, synth_args, runs, first_out>>

\* the print loop of step 1 reads script["scenes"] and s['duration']
ScenesComplete(s) ==
  s.has_scenes /\ \A i \in 1..Len(s.scenes) : s.scenes[i] # NoDuration

\* scripts that pass _validate_script
GeneratedScripts == {s \in Scripts : ScenesComplete(s) /\ s.audio_tone # None}

PipelineMusicDirs == {NoDir, Dir({}), Dir({"theme.mp3"})}

\* mutant: the music step comes before the voice step
NextStepMusicBeforeVoice(step_name) ==
  CASE step_name = "script_generation" -> <<"start", "visual_generation">>
    [] step_name = "visual_generation" -> <<"start", "music_generation">>
    [] step_name = "music_generation" -> <<"start", "voice_generation">>
    [] step_name = "voice_generation" -> <<"start", "assembly">>
    [] step_name = "assembly" -> <<"run", "approval">>

\* where run_pipeline goes on after the try block of a step was left
\* without a raise
NextStep(step_name) ==
  CASE step_name = "script_generation" -> <<"start", "visual_generation">>
    [] step_name = "visual_generation" -> <<"start", "voice_generation">>
    [] step_name = "voice_generation" -> <<"start", "music_generation">>
    [] step_name = "music_generation" -> <<"start", "assembly">>
    [] step_name = "assembly" -> <<"run", "approval">>

\* mutant: the exception is swallowed and run_pipeline goes on to the
\* approval gate
RaisedSwallowed == <<"run", "approval">>

\* the exception leaves run_pipeline
Raised == <<"end", "raised">>
Returned == <<"end", "returned">>

\* gen_log.start_step(<step>) ahead of each try block
StartStep ==
  /\ entry = "run_pipeline"
  /\ UNCHANGED asmVars
  /\ UNCHANGED gateVars
  /\ pipe_pc[1] = "start"
  /\ gen_log' = start_step(gen_log, pipe_pc[2])
  /\ pipe_pc' = <<"run", pipe_pc[2]>>
  /\ trace' = Append(trace, <<"start", pipe_pc[2]>>)
  /\ UNCHANGED <<script, custom_script, auto_approve, image_paths,
                 narration_paths, music_path, final_video>>
  /\ UNCHANGED musicVars

\* step 1: the custom script is taken, or generate_script is called; the
\* step is completed, the script stored and printed; any exception fails
\* the step, finalizes the log as failed and is raised again
ScriptStage ==
  /\ entry = "run_pipeline"
  /\ UNCHANGED asmVars
  /\ UNCHANGED gateVars
  /\ pipe_pc = <<"run", "script_generation">>
  /\ trace' = Append(trace, <<"end", "script_generation">>)
  /\ UNCHANGED <<custom_script, auto_approve, image_paths, narration_paths,
                 music_path, final_video>>
  /\ UNCHANGED musicVars
  /\ IF custom_script
     THEN \E s \in Scripts, has_title \in BOOLEAN :
            /\ script' = s
            /\ IF has_title /\ ScenesComplete(s)
               THEN /\ gen_log' = set_script(complete_step(gen_log, "script_generation"))
                    /\ pipe_pc' = NextStep("script_generation")
               ELSE /\ gen_log' =
                         finalize(fail_step(
                           set_script(complete_step(gen_log, "script_generation")),
                           "script_generation", "KeyError"), "failed")
                    /\ pipe_pc' = Raised
     ELSE \/ \E s \in GeneratedScripts :
               /\ script' = s
               /\ gen_log' = set_script(complete_step(gen_log, "script_generation"))
               /\ pipe_pc' = NextStep("script_generation")
          \/ /\ script' = script
             /\ gen_log' = finalize(fail_step(gen_log, "script_generation",
                                              "RuntimeError"), "failed")
             /\ pipe_pc' = Raised

\* step 2: generate_scene_images; a failure is logged and image_paths = []
VisualStage ==
  /\ entry = "run_pipeline"
  /\ UNCHANGED asmVars
  /\ UNCHANGED gateVars
  /\ pipe_pc = <<"run", "visual_generation">>
  /\ trace' = Append(trace, <<"end", "visual_generation">>)
  /\ pipe_pc' = NextStep("visual_generation")
  /\ UNCHANGED <<script, custom_script, auto_approve, narration_paths,
                 music_path, final_video>>
  /\ UNCHANGED musicVars
  /\ \/ /\ image_paths' = [i \in 1..Len(script.scenes) |-> "temp/scene.png"]
        /\ gen_log' = complete_step(set_assets_images(gen_log, image_paths'),
                                    "visual_generation")
     \/ /\ image_paths' = <<>>
        /\ gen_log' = fail_step(gen_log, "visual_generation", "Exception")

\* step 3: generate_narration; a failure is logged and narration_paths = []
VoiceStage ==
  /\ entry = "run_pipeline"
  /\ UNCHANGED asmVars
  /\ UNCHANGED gateVars
  /\ pipe_pc = <<"run", "voice_generation">>
  /\ trace' = Append(trace, <<"end", "voice_generation">>)
  /\ pipe_pc' = NextStep("voice_generation")
  /\ UNCHANGED <<script, custom_script, auto_approve, image_paths,
                 music_path, final_video>>
  /\ UNCHANGED musicVars
  /\ \/ /\ narration_paths' \in
              [1..Len(script.scenes) -> {"temp/narration.mp3", None}]
        /\ gen_log' = complete_step(
                         set_assets_narrations(gen_log,
                           SelectSeq(narration_paths', LAMBDA q : q # None)),
                         "voice_generation")
     \/ /\ narration_paths' = <<>>
        /\ gen_log' = fail_step(gen_log, "voice_generation", "Exception")

\* step 4: generate_background_music(script); a failure is logged and
\* music_path = None
MusicStage ==
  /\ entry = "run_pipeline"
  /\ UNCHANGED asmVars
  /\ UNCHANGED gateVars
  /\ pipe_pc = <<"run", "music_generation">>
  /\ trace' = Append(trace, <<"end", "music_generation">>)
  /\ pipe_pc' = NextStep("music_generation")
  /\ UNCHANGED <<script, custom_script, auto_approve, image_paths,
                 narration_paths, final_video>>
  /\ GenerateBackgroundMusic
  /\ IF pc' = "returned"
     THEN /\ music_path' = result'
          /\ gen_log' = complete_step(set_assets_music(gen_log, music_path'),
                                      "music_generation")
     ELSE /\ music_path' = None
          /\ gen_log' = fail_step(gen_log, "music_generation", result')

\* step 5: assemble_reel; a failure, in assemble_reel or in the stat() of
\* the file it returned, fails the step, finalizes the log as failed and
\* is raised again
AssemblyStage ==
  /\ entry = "run_pipeline"
  /\ UNCHANGED asmVars
  /\ UNCHANGED gateVars
  /\ pipe_pc = <<"run", "assembly">>
  /\ trace' = Append(trace, <<"end", "assembly">>)
  /\ UNCHANGED <<script, custom_script, auto_approve, image_paths,
                 narration_paths, music_path>>
  /\ UNCHANGED musicVars
  /\ \/ /\ final_video' = "output/reel.mp4"
        /\ gen_log' = complete_step(
                         set_assets_output_video(gen_log, final_video'),
                         "assembly")
        /\ pipe_pc' = NextStep("assembly")
     \/ /\ final_video' = "output/reel.mp4"
        /\ gen_log' = finalize(fail_step(
                         set_assets_output_video(gen_log, final_video'),
                         "assembly", "FileNotFoundError"), "failed")
        /\ pipe_pc' = Raised
     \/ /\ final_video' = final_video
        /\ gen_log' = finalize(fail_step(gen_log, "assembly", "Exception"),
                               "failed")
        /\ pipe_pc' = Raised

\* step 6: request_approval is entered; with auto_approve it approves,
\* finalizes the log and run_pipeline returns
ApprovalGate ==
  /\ entry = "run_pipeline"
  /\ UNCHANGED asmVars
  /\ pipe_pc = <<"run", "approval">>
  /\ UNCHANGED <<script, custom_script, auto_approve, image_paths,
                 narration_paths, music_path, final_video>>
  /\ UNCHANGED musicVars
  /\ IF auto_approve
     THEN /\ gen_log' = finalize([gen_log EXCEPT !.approval = "True"], "approved")
          /\ pipe_pc' = Returned
          /\ trace' = trace \o << <<"start", "approval">>, <<"end", "approval">> >>
          /\ approved' = "True"
          /\ prompts' = prompts
     ELSE /\ gen_log' = gen_log
          /\ pipe_pc' = <<"prompt", "approval">>
          /\ trace' = Append(trace, <<"start", "approval">>)
          /\ UNCHANGED gateVars

\* one turn of the interactive loop of request_approval
ApprovalPrompt ==
  /\ entry = "run_pipeline"
  /\ UNCHANGED asmVars
  /\ pipe_pc = <<"prompt", "approval">>
  /\ UNCHANGED <<script, custom_script, auto_approve, image_paths,
                 narration_paths, music_path, final_video>>
  /\ UNCHANGED musicVars
  /\ \E choice \in {"A", "R", "V", "?", "EOFError"} :
       /\ prompts' = prompts + 1
       /\ CASE choice = "A" ->
              /\ gen_log' = finalize([gen_log EXCEPT !.approval = "True"], "approved")
              /\ pipe_pc' = Returned
              /\ trace' = Append(trace, <<"end", "approval">>)
              /\ approved' = "True"
         [] choice = "R" ->
              /\ gen_log' = finalize([gen_log EXCEPT !.approval = "False"], "rejected")
              /\ pipe_pc' = Returned
              /\ trace' = Append(trace, <<"end", "approval">>)
              /\ approved' = "False"
         [] choice = "EOFError" ->
              /\ gen_log' = gen_log
              /\ pipe_pc' = Raised
              /\ trace' = Append(trace, <<"end", "approval">>)
              /\ approved' = approved
         [] OTHER ->
              /\ prompts < MaxPrompts
              /\ UNCHANGED <<gen_log, pipe_pc, trace, approved>>

InitPipeline ==
  /\ entry = "run_pipeline"
  /\ script = NoScript
  /\ duration = NoDuration
  /\ mood = None
  /\ music_dir \in PipelineMusicDirs
  /\ out_file = Absent
  /\ audio_data = <<>>
  /\ rng = "unseeded"
  /\ pc = "ready"
  /\ result = None
  /\ invoked = {}
  /\ synth_args = NoArgs
  /\ runs = 0
  /\ first_out = <<>>
  /\ pipe_pc = <<"start", "script_generation">>
  /\ custom_script \in BOOLEAN
  /\ auto_approve \in BOOLEAN
  /\ gen_log = NewLog
  /\ image_paths = <<>>
  /\ narration_paths = <<>>
  /\ music_path = None
  /\ final_video = None
  /\ trace = <<>>
  /\ approved = None
  /\ prompts = 0
  /\ AsmIdle

NextPipeline ==
  \/ StartStep
  \/ ScriptStage
  \/ VisualStage
  \/ VoiceStage
  \/ MusicStage
  \/ AssemblyStage
  \/ ApprovalGate
  \/ ApprovalPrompt

SpecPipeline == InitPipeline /\ [][NextPipeline]_vars

\* ------------------------------------------------------------------------
\* assemble_reel (assembly_engine.py): the audio timeline.  Times are whole
\* tenths of a second.
\* ------------------------------------------------------------------------
\* config.CROSSFADE_DURATION = 0.4
CROSSFADE_DURATION == 4
\* NARRATION_GAP = 0.3
NARRATION_GAP == 3
\* the grace of 0.2 past the scene's end
NarrationGrace == 2
\* the floor of 0.5 under the time left to a narration
MinAvailable == 5

SceneDurationChoices == {5, 10, 50}
NarrationChoices == {NoDuration, 4, 12, 52}
MusicChoices == {NoDuration, 0, 30, 47, 200}

RECURSIVE SceneStart(_, _)
\* scene_start_times[i] (i from 1): every scene but the last moves t on by
\* its duration less the crossfade
SceneStart(durations, i) ==
  IF i = 1 THEN 0
  ELSE SceneStart(durations, i - 1) + durations[i - 1] - CROSSFADE_DURATION

\* duration of concatenate_videoclips(scene_clips, padding=-crossfade), or
\* of the one clip
VideoDuration(durations) ==
  SceneStart(durations, Len(durations)) + durations[Len(durations)]

\* what the rest of assemble_reel leaves alone
beforeAsmVars == <<entry, script, duration, mood, music_dir, out_file,
                   audio_data, rng, pc, result, invoked, synth_args, runs,
                   first_out>>

\* lines 117-135: the video is joined, the scene start times computed and
\* the narration cursor set to 0.0
AsmTimeline ==
  /\ entry = "assemble_reel"
  /\ asm_pc = "timeline"
  /\ asm_pc' = "narration"
  /\ total_video_duration' = VideoDuration(scene_durations)
  /\ scene_start_times' =
       [i \in 1..Len(scene_durations) |-> SceneStart(scene_durations, i)]
  /\ narration_cursor' = 0
  /\ narration_i' = 0
  /\ UNCHANGED <<scene_durations, narration_lengths, music_length,
                 narration_clips, music_layer>>
  /\ UNCHANGED beforeAsmVars
  /\ UNCHANGED pipeVars

\* available = max(scene_end - safe_start, 0.5)
Available(scene_end, safe_start) == Max(scene_end - safe_start, MinAvailable)

\* mutant: the next narration may start where this one ends, without a gap
CursorAfterNoGap(safe_start, narr_duration) == safe_start + narr_duration

\* narration_cursor = safe_start + narr.duration + NARRATION_GAP
CursorAfter(safe_start, narr_duration) ==
  safe_start + narr_duration + NARRATION_GAP

\* one turn of the narration loop, for scene i = narration_i
PlaceNarration ==
  /\ entry = "assemble_reel"
  /\ asm_pc = "narration"
  /\ narration_i < Len(scene_durations)
  /\ narration_i' = narration_i + 1
  /\ UNCHANGED <<asm_pc, scene_durations, narration_lengths, music_length,
                 scene_start_times, total_video_duration, music_layer>>
  /\ UNCHANGED beforeAsmVars
  /\ UNCHANGED pipeVars
  /\ LET i == narration_i + 1
         length == narration_lengths[i]
         ideal_start == scene_start_times[i]
         safe_start == Max(ideal_start, narration_cursor)
         scene_end == scene_start_times[i] + scene_durations[i]
         narr_duration ==
           IF safe_start + length > scene_end + NarrationGrace
           THEN Min(length, Available(scene_end, safe_start))
           ELSE length
     IN  IF length = NoDuration
         THEN UNCHANGED <<narration_clips, narration_cursor>>
         ELSE \/ /\ narration_clips' =
                      Append(narration_clips,
                             [scene |-> i, start |-> safe_start,
                              duration |-> narr_duration])
                 /\ narration_cursor' = CursorAfter(safe_start, narr_duration)
              \/ \* AudioFileClip raised: the narration is left out
                 UNCHANGED <<narration_clips, narration_cursor>>

\* mutant: one repetition less
LoopsNeededNoExtra(video, music) == PyInt(video, music)

\* loops_needed = int(total_video_duration / music_audio.duration) + 1
LoopsNeeded(video, music) == PyInt(video, music) + 1

\* lines 167-184: the music is looped if shorter than the video, cut to the
\* video's length and appended; any exception leaves it out
MixMusic ==
  /\ entry = "assemble_reel"
  /\ asm_pc = "narration"
  /\ narration_i = Len(scene_durations)
  /\ asm_pc' = "export"
  /\ UNCHANGED <<scene_durations, narration_lengths, music_length,
                 scene_start_times, total_video_duration, narration_i,
                 narration_cursor, narration_clips>>
  /\ UNCHANGED beforeAsmVars
  /\ UNCHANGED pipeVars
  /\ IF music_length = NoDuration
     THEN music_layer' = NoLayer
     ELSE \/ IF music_length < total_video_duration
             THEN IF music_length = 0
                  THEN music_layer' = NoLayer
                  ELSE music_layer' =
                         [mixed |-> TRUE,
                          content |-> LoopsNeeded(total_video_duration, music_length)
                                        * music_length,
                          duration |-> total_video_duration]
             ELSE music_layer' =
                    [mixed |-> TRUE, content |-> music_length,
                     duration |-> total_video_duration]
          \/ \* AudioFileClip raised: no music
             music_layer' = NoLayer

\* lines 186-218: the audio is composed and the file written
AsmExport ==
  /\ entry = "assemble_reel"
  /\ asm_pc = "export"
  /\ asm_pc' \in {"returned", "raised"}
  /\ UNCHANGED <<scene_durations, narration_lengths, music_length,
                 scene_start_times, total_video_duration, narration_i,
                 narration_cursor, narration_clips, music_layer>>
  /\ UNCHANGED beforeAsmVars
  /\ UNCHANGED pipeVars

InitAssembly ==
  /\ entry = "assemble_reel"
  /\ script = NoScript
  /\ duration = NoDuration
  /\ mood = None
  /\ music_dir = Dir({})
  /\ out_file = Absent
  /\ audio_data = <<>>
  /\ rng = "unseeded"
  /\ pc = "ready"
  /\ result = None
  /\ invoked = {}
  /\ synth_args = NoArgs
  /\ runs = 0
  /\ first_out = <<>>
  /\ PipeIdle
  /\ asm_pc = "timeline"
  /\ \E n \in 1..MaxScenes :
       /\ scene_durations \in [1..n -> SceneDurationChoices]
       /\ narration_lengths \in [1..n -> NarrationChoices]
  /\ music_length \in MusicChoices
  /\ scene_start_times = <<>>
  /\ total_video_duration = 0
  /\ narration_i = 0
  /\ narration_cursor = 0
  /\ narration_clips = <<>>
  /\ music_layer = NoLayer

NextAssembly ==
  \/ AsmTimeline
  \/ PlaceNarration
  \/ MixMusic
  \/ AsmExport

SpecAssembly == InitAssembly /\ [][NextAssembly]_vars


\* ------------------------------------------------------------------------
\* What the claims speak of
\* ------------------------------------------------------------------------
\* the latest call invoked the synthesizer
SynthRan == pc # "ready" /\ "_synthesize_ambient" \in invoked

\* ... and it wrote the whole file and returned
SynthDone == pc = "returned" /\ "_synthesize_ambient" \in invoked

Abs(x) == IF x < 0 THEN -x ELSE x

\* frames the four chord segments produce for the latest synthesis
SegmentFrames ==
  LET x == synth_args.duration * SAMPLE_RATE
  IN  IF x <= 0 THEN 0 ELSE 4 * (x \div (4 * DurDen))

\* ------------------------------------------------------------------------
\* C1
\* ------------------------------------------------------------------------
\* C1 as stated: for every duration > 0 the number of frames in the buffer
\* and in the WAV file is round(duration * sample_rate), nearest integer.
C1_LengthIsRounded ==
  (SynthDone /\ synth_args.duration > 0) =>
     /\ Len(out_file.frames) = PyRound(synth_args.duration * SAMPLE_RATE, DurDen)
     /\ Len(audio_data) = Len(out_file.frames)

\* C1 amended: for every duration > 0 the number of frames in the buffer and
\* in the WAV file is int(duration * sample_rate), the product truncated to
\* an integer; the frames past the chord segments are silent padding.
C1_LengthIsTruncated ==
  (SynthDone /\ synth_args.duration > 0) =>
     LET n == Len(out_file.frames)
         x == synth_args.duration * SAMPLE_RATE
     IN  /\ n * DurDen <= x
         /\ x < (n + 1) * DurDen
         /\ Len(audio_data) = n
         /\ \A k \in 1..n :
              k > SegmentFrames =>
                 audio_data[k] = <<0, 0>> /\ out_file.frames[k] = <<0, 0>>

\* a synthesis whose duration * sample_rate has a fractional part of a half
\* or more, with padding frames after the segments
C1_Witness ==
  /\ SynthDone
  /\ synth_args.duration > 0
  /\ 2 * ((synth_args.duration * SAMPLE_RATE) % DurDen) >= DurDen
  /\ Len(out_file.frames) > SegmentFrames
  /\ SegmentFrames > 0

\* ------------------------------------------------------------------------
\* C2
\* ------------------------------------------------------------------------
\* C2: every amplitude of the finished buffer lies in [-0.8, 0.8] and every
\* value written to the file lies in [-32768, 32767].
C2_AmplitudeBound ==
  SynthRan =>
     /\ \A k \in 1..Len(audio_data) :
          /\ 10 * Abs(audio_data[k][1]) <= 8 * AmpScale
          /\ 10 * Abs(audio_data[k][2]) <= 8 * AmpScale
     /\ \A k \in 1..Len(out_file.frames) :
          /\ out_file.frames[k][1] \in (-32768)..32767
          /\ out_file.frames[k][2] \in (-32768)..32767

\* a finished buffer with frames inside and outside the global fades, one
\* of them louder than 0.3 and written as a non-zero value
C2_Witness ==
  /\ SynthDone
  /\ Len(audio_data) > fade_in_samples + fade_out_samples
  /\ \E k \in 1..Len(audio_data) :
       /\ k > fade_in_samples
       /\ k <= Len(audio_data) - fade_out_samples
       /\ 10 * Abs(audio_data[k][1]) > 3 * AmpScale
       /\ out_file.frames[k][1] # 0

SupportedExtensions == {".mp3", ".wav", ".ogg", ".m4a"}

\* the files of the music directory with a supported extension
MusicFiles ==
  IF ~music_dir.exists THEN {}
  ELSE {f \in music_dir.files :
          \E e \in SupportedExtensions :
             Len(f) >= Len(e) /\ SubSeq(f, Len(f) - Len(e) + 1, Len(f)) = e}

\* C4: with a supported file in the music directory, generate_background_music
\* returns the path of such a file, invokes neither mood detection nor the
\* synthesizer nor the writer, and no file appears in the output directory.
C4_OverrideShortCircuits ==
  (entry = "generate_background_music" /\ MusicFiles # {}) =>
     /\ pc # "raised"
     /\ ~out_file.exists
     /\ audio_data = <<>>
     /\ synth_args = NoArgs
     /\ pc = "returned" =>
          /\ result \in MusicFiles
          /\ invoked \cap {"_detect_mood", "_synthesize_ambient"} = {}

\* the override taken for a script without scenes and no duration argument,
\* in a directory whose only supported file is a .wav
C4_Witness ==
  /\ entry = "generate_background_music"
  /\ pc = "returned"
  /\ result = "loop.wav"
  /\ ~script.has_scenes
  /\ duration = NoDuration

\* ------------------------------------------------------------------------
\* C5
\* ------------------------------------------------------------------------
\* the order the claims give for the scan
ScanOrder == <<"calm", "inspirational", "nostalgic", "epic", "melancholic", "dreamy">>

\* the keyword list of a mood
KeywordsOf(m) ==
  LET k == CHOOSE j \in 1..Len(mood_keywords) : mood_keywords[j][1] = m
  IN  {mood_keywords[k][2][j] : j \in 1..Len(mood_keywords[k][2])}

\* positions in ScanOrder of the moods with a keyword that is a substring of
\* the lower-cased tone text
Matching(text) ==
  {k \in 1..Len(ScanOrder) :
     \E kw \in KeywordsOf(ScanOrder[k]) : Contains(kw, Lower(text))}

\* C5: when some keyword occurs in the lower-cased tone text, _detect_mood
\* returns the mood that comes first in the order calm, inspirational,
\* nostalgic, epic, melancholic, dreamy among those with a keyword in it;
\* 'epic orchestral battle' yields epic.
C5_FirstMatchWins ==
  (entry = "_detect_mood" /\ pc = "returned") =>
     /\ \A k \in Matching(script.audio_tone) :
          (\A h \in Matching(script.audio_tone) : k <= h) => result = ScanOrder[k]
     /\ script.audio_tone = "epic orchestral battle" => result = "epic"

\* a text with keywords of two moods, resolved to the earlier one, which is
\* not the default
C5_Witness ==
  /\ entry = "_detect_mood"
  /\ pc = "returned"
  /\ Matching(script.audio_tone) = {2, 5}
  /\ result = "inspirational"

\* ------------------------------------------------------------------------
\* C6
\* ------------------------------------------------------------------------
\* C6 as stated: 'soft piano ballad' resolves to melancholic.
C6_SoftPianoBalladMelancholic ==
  (entry = "_detect_mood" /\ pc = "returned"
     /\ script.audio_tone = "soft piano ballad") => result = "melancholic"

\* C6 amended: 'soft piano ballad' resolves to calm ('soft' is a keyword of
\* calm, which is scanned before melancholic and its keyword 'piano').
C6_SoftPianoBalladCalm ==
  (entry = "_detect_mood" /\ pc = "returned"
     /\ script.audio_tone = "soft piano ballad") =>
        /\ result = "calm"
        /\ Matching(script.audio_tone) = {1, 5}

C6_Witness ==
  /\ entry = "_detect_mood"
  /\ pc = "returned"
  /\ script.audio_tone = "soft piano ballad"

\* ------------------------------------------------------------------------
\* C7
\* ------------------------------------------------------------------------
\* C7: for every tone text _detect_mood returns one of the six moods, each a
\* key of MOOD_CHORDS, and it returns calm when no keyword occurs in the text.
C7_Total ==
  (entry = "_detect_mood" /\ pc = "returned") =>
     /\ result \in {"calm", "inspirational", "nostalgic", "epic",
                    "melancholic", "dreamy"}
     /\ result \in DOMAIN MOOD_CHORDS
     /\ Matching(script.audio_tone) = {} => result = "calm"

\* the empty text, and a non-empty text without a keyword, were resolved
C7_Witness ==
  /\ entry = "_detect_mood"
  /\ pc = "returned"
  /\ script.audio_tone \in {"", "pian battle"}
  /\ Matching(script.audio_tone) = {}

\* ------------------------------------------------------------------------
\* C8
\* ------------------------------------------------------------------------
\* C8: a synthesis invoked with a duration <= 0 ends in InvalidDurationError
\* and leaves no audio file.
C8_NonPositiveDurationRejected ==
  (SynthRan /\ synth_args.duration <= 0) =>
     /\ pc = "raised"
     /\ result = "InvalidDurationError"
     /\ ~out_file.exists

\* ------------------------------------------------------------------------
\* C9
\* ------------------------------------------------------------------------
\* C9: once a call has failed while writing the container, the output path
\* holds no file, or a file that is not a partial one (all frames of the
\* buffer are in it).
C9_NoPartialFile ==
  (SynthRan /\ pc = "raised" /\ result = "OSError") =>
     \/ ~out_file.exists
     \/ out_file.frames = WavFrames(audio_data, synth_args.duration)

\* ------------------------------------------------------------------------
\* C10
\* ------------------------------------------------------------------------
\* C10 as stated: a synthesis invoked with a mood key that is not in the
\* chord table fails with InvalidMoodError.
C10_UnknownMoodRejected ==
  (SynthRan /\ synth_args.mood \notin DOMAIN MOOD_CHORDS) =>
     pc = "raised" /\ result = "InvalidMoodError"

\* C10 amended: a synthesis invoked with a mood key that is not in the chord
\* table raises no mood error: it renders the calm progression, and it fails
\* only if writing the file fails.
C10_UnknownMoodFallsBack ==
  (SynthRan /\ synth_args.mood \notin DOMAIN MOOD_CHORDS) =>
     /\ pc = "raised" => result = "OSError"
     /\ audio_data = Synthesize(<<>>, synth_args.duration, "calm")
     /\ pc = "returned" =>
          out_file = File(WavFrames(audio_data, synth_args.duration))

\* an unknown mood was synthesized into a file with frames that are not all
\* silent
C10_Witness ==
  /\ SynthDone
  /\ synth_args.mood = "energetic"
  /\ \E k \in 1..Len(out_file.frames) : out_file.frames[k][1] # 0

\* ------------------------------------------------------------------------
\* C11
\* ------------------------------------------------------------------------
\* the calm progression: C, F, Dm, G
CalmProgression ==
  << <<26163, 32963, 39200>>, <<34923, 44000, 52325>>,
     <<29366, 36999, 44000>>, <<39200, 49388, 58733>> >>

\* C11: for a mood that is no key of MOOD_CHORDS the lookup yields the calm
\* progression, and the synthesis produces the frames, as many and the same,
\* that mood calm gives for the same duration.
C11_UnknownMoodIsCalm ==
  (SynthRan /\ synth_args.mood \notin MoodSet) =>
     LET calm == Synthesize(<<>>, synth_args.duration, "calm")
     IN  /\ ChordsFor(synth_args.mood) = CalmProgression
         /\ MOOD_CHORDS["calm"] = CalmProgression
         /\ Len(audio_data) = Len(calm)
         /\ \A k \in 1..Len(calm) : audio_data[k] = calm[k]
         /\ pc = "returned" =>
              out_file.frames = WavFrames(calm, synth_args.duration)

\* an unknown mood synthesized over segments longer than both crossfade
\* windows, with sound in the second segment
C11_Witness ==
  /\ SynthDone
  /\ synth_args.mood \notin MoodSet
  /\ SegmentFrames > 8 * crossfade_samples
  /\ \E k \in 1..SegmentFrames :
       4 * k > SegmentFrames /\ 2 * k <= SegmentFrames /\ audio_data[k][1] # 0

\* ------------------------------------------------------------------------
\* C12
\* ------------------------------------------------------------------------
\* the order in which the claim ranks the extensions
ExtensionOrder == <<".mp3", ".wav", ".ogg", ".m4a">>

HasExtension(f, e) ==
  Len(f) >= Len(e) /\ SubSeq(f, Len(f) - Len(e) + 1, Len(f)) = e

\* position in ExtensionOrder of the extension of a supported file
ExtensionRank(f) ==
  CHOOSE k \in 1..Len(ExtensionOrder) : HasExtension(f, ExtensionOrder[k])

\* generate_background_music got a file from _find_custom_music: it
\* returned without going on to mood detection
CustomFound ==
  entry = "generate_background_music" /\ pc = "returned"
     /\ invoked = {"_find_custom_music"}

\* generate_background_music got none from _find_custom_music: it went on
\* to the duration and the synthesis
CustomNone ==
  entry = "generate_background_music" /\ pc # "ready"
     /\ (result = "KeyError" \/ "_synthesize_ambient" \in invoked)

\* C12: _find_custom_music returns none when the music directory does not
\* exist or holds no .mp3, .wav, .ogg or .m4a file; otherwise it returns a
\* file of the directory whose extension is the earliest, in the order
\* .mp3, .wav, .ogg, .m4a, of those present.
C12_EarliestExtension ==
  (entry = "generate_background_music" /\ pc # "ready") =>
     IF MusicFiles = {}
     THEN CustomNone /\ ~CustomFound
     ELSE /\ CustomFound /\ ~CustomNone
          /\ result \in MusicFiles
          /\ \A g \in MusicFiles : ExtensionRank(result) <= ExtensionRank(g)

\* a directory without an .mp3 and without a .wav, where the .ogg file was
\* returned and not the .m4a file
C12_Witness ==
  /\ CustomFound
  /\ Cardinality({ExtensionRank(g) : g \in MusicFiles}) > 1
  /\ ExtensionRank(result) = 3

\* ------------------------------------------------------------------------
\* C13
\* ------------------------------------------------------------------------
Clamp16(q) == Max(-32768, Min(32767, q))

\* the frames of the file and the amplitudes they were written from
WrittenValues ==
  {<<audio_data[k][c], out_file.frames[k][c]>> :
     k \in 1..Len(out_file.frames), c \in {1, 2}}

\* C13 as stated: each amplitude a is written as round(a * 32767), rounded
\* to the nearest integer for positive and negative values alike, clamped
\* to [-32768, 32767].
C13_QuantizeRounds ==
  SynthRan =>
     \A v \in WrittenValues : v[2] = Clamp16(PyRound(v[1] * 32767, AmpScale))

\* C13 amended: each amplitude a is written as int(a * 32767), the product
\* truncated toward zero for positive and negative values alike, clamped to
\* [-32768, 32767].
C13_QuantizeTruncates ==
  SynthRan =>
     \A v \in WrittenValues :
        LET x == v[1] * 32767
            q == v[2]
        IN  /\ q \in (-32768)..32767
            /\ x >= 0 => q * AmpScale <= x /\ x < (q + 1) * AmpScale
            /\ x < 0 => (q - 1) * AmpScale < x /\ x <= q * AmpScale

\* a file with a positive value whose product has a fractional part above
\* a half, and a negative value whose product has a fractional part
C13_Witness ==
  /\ SynthDone
  /\ \E v \in WrittenValues :
        v[1] > 0 /\ 2 * ((v[1] * 32767) % AmpScale) > AmpScale
  /\ \E v \in WrittenValues :
        v[1] < 0 /\ ((-v[1]) * 32767) % AmpScale # 0

\* ------------------------------------------------------------------------
\* C14
\* ------------------------------------------------------------------------
\* C14: a written value q, read back as q / 32767, differs from the
\* amplitude a it was written from by at most one quantization step,
\* 1 / 32767, on both channels: |q - a * 32767| <= 1.
C14_RoundTrip ==
  SynthRan =>
     /\ pc = "returned" => Len(out_file.frames) = Len(audio_data)
     /\ \A k \in 1..Len(out_file.frames) :
          \A c \in {1, 2} :
             Abs(out_file.frames[k][c] * AmpScale - audio_data[k][c] * 32767)
                <= AmpScale

\* a complete file with a frame that is loud on both channels and whose
\* written values are not exact on either
C14_Witness ==
  /\ SynthDone
  /\ \E k \in 1..Len(out_file.frames) :
        \A c \in {1, 2} :
           /\ 10 * Abs(audio_data[k][c]) > 2 * AmpScale
           /\ out_file.frames[k][c] * AmpScale # audio_data[k][c] * 32767

\* ------------------------------------------------------------------------
\* C15
\* ------------------------------------------------------------------------
\* the buffer of the latest synthesis as the chord loop and the padding
\* left it, before the global fades
BeforeFades ==
  LET chords == ChordsFor(synth_args.mood)
  IN  PadSilence(
        ChordFrames(<<>>, chords, samples_per_chord(synth_args.duration, chords)),
        total_samples(synth_args.duration))

\* frames (0-based) of the fade-in window of a buffer of n frames
FadeInWindow(n) == {i \in 0..(n - 1) : i < fade_in_samples}

\* the factor the claim gives for frame i, as <<numerator, denominator>>
FadeInFactor(i) == <<i, fade_in_samples>>

\* C15: the global fade-in scales frame i, for the first fade_in_samples
\* frames, by i / fade_in_samples on the left and on the right channel
\* alike; the factor is 0 at frame 0, non-decreasing over the window and
\* below 1 throughout it; later frames are left to the fade-out alone.
C15_FadeInRamp ==
  SynthRan =>
     \E pre \in {BeforeFades} :
        LET n == Len(pre)
            ramped ==
              [k \in 1..n |->
                 IF k - 1 \in FadeInWindow(n)
                 THEN <<Scale(pre[k][1], FadeInFactor(k - 1)[1], FadeInFactor(k - 1)[2]),
                        Scale(pre[k][2], FadeInFactor(k - 1)[1], FadeInFactor(k - 1)[2])>>
                 ELSE pre[k]]
        IN  /\ audio_data = FadeOut(ramped)
            /\ n > 0 => FadeInFactor(0)[1] = 0 /\ audio_data[1] = <<0, 0>>
            /\ \A i \in FadeInWindow(n) :
                  /\ FadeInFactor(i)[1] >= 0
                  /\ FadeInFactor(i)[1] < FadeInFactor(i)[2]
                  /\ (i + 1) \in FadeInWindow(n) =>
                        FadeInFactor(i)[1] <= FadeInFactor(i + 1)[1]

\* a buffer longer than both fade windows together, with a frame of the
\* fade-in window that sounded before the fade and was turned down by it
C15_Witness ==
  /\ SynthDone
  /\ Len(audio_data) > fade_in_samples + fade_out_samples
  /\ \E k \in 2..fade_in_samples :
        /\ BeforeFades[k][1] # 0
        /\ Abs(audio_data[k][1]) < Abs(BeforeFades[k][1])
        /\ Abs(audio_data[k][2]) < Abs(BeforeFades[k][2])

\* ------------------------------------------------------------------------
\* C17
\* ------------------------------------------------------------------------
\* a step in which _synthesize_ambient ran
SynthStep == runs' = runs + 1 /\ "_synthesize_ambient" \in invoked'

\* C17: a synthesis changes no state shared with other components: the
\* music directory, the arguments of the caller and the state of the
\* process-global random generator are after the call what they were
\* before it; only the sample buffer and the output file change.
C17_NoSharedStateChanged ==
  [][SynthStep =>
       /\ rng' = rng
       /\ music_dir' = music_dir
       /\ <<script, duration, mood>>' = <<script, duration, mood>>]_vars

\* ------------------------------------------------------------------------
\* C19
\* ------------------------------------------------------------------------
RampIn(sample, i) == Scale(sample, i, crossfade_samples)
RampOut(sample, i, spc) == Scale(sample, spc - i, crossfade_samples)

\* the crossfade of frame i of a segment of spc frames under a reading:
\*   "in-out", "out-in": the first crossfade_samples frames get the ramp in,
\*      the last crossfade_samples frames the ramp out, a frame in both
\*      windows gets both (in the order named);
\*   "in-else-out": a frame of the first window gets the ramp in and nothing
\*      else; any other frame of the last window gets the ramp out.
CrossfadeAs(reading, sample, i, spc) ==
  LET first == i < crossfade_samples
      last == i >= spc - crossfade_samples
  IN  CASE reading = "in-out" ->
             LET a == IF first THEN RampIn(sample, i) ELSE sample
             IN  IF last THEN RampOut(a, i, spc) ELSE a
        [] reading = "out-in" ->
             LET a == IF last THEN RampOut(sample, i, spc) ELSE sample
             IN  IF first THEN RampIn(a, i) ELSE a
        [] reading = "in-else-out" ->
             IF first THEN RampIn(sample, i)
             ELSE IF last THEN RampOut(sample, i, spc) ELSE sample

\* the finished buffer of the latest synthesis if its segments were
\* crossfaded under the reading
BufferAs(reading) ==
  LET chords == ChordsFor(synth_args.mood)
      spc == samples_per_chord(synth_args.duration, chords)
      n == Max(spc, 0)
      segments ==
        [k \in 1..(Len(chords) * n) |->
           LET chord == chords[((k - 1) \div n) + 1]
               i == (k - 1) % n
               sample == Clamp(CrossfadeAs(reading, Lfo(ChordSum(chord, i), i), i, spc))
           IN  <<sample, Scale(sample, 95, 100)>>]
  IN  FadeOut(FadeIn(PadSilence(segments, total_samples(synth_args.duration))))

\* C19 as stated: in every segment the first crossfade_samples frames are
\* scaled by i / crossfade_samples and the last crossfade_samples frames by
\* (samples_per_segment - i) / crossfade_samples, and a frame that lies in
\* both windows of a short segment gets both ramps.
C19_BothRampsApply ==
  SynthRan =>
     \E a \in {BufferAs("in-out")} : \E b \in {BufferAs("out-in")} :
        /\ Len(audio_data) = Len(a)
        /\ \A k \in 1..Len(a) : audio_data[k] \in {a[k], b[k]}

\* C19 amended: in every segment the first crossfade_samples frames are
\* scaled by i / crossfade_samples, and the frames of the last
\* crossfade_samples that are not among them by
\* (samples_per_segment - i) / crossfade_samples; a frame that lies in both
\* windows of a short segment gets the first ramp only.
C19_FirstRampWins ==
  SynthRan => audio_data = BufferAs("in-else-out")

\* a segment shorter than two crossfade windows, with a frame in both
\* windows that sounds in the finished buffer and on which the readings
\* differ
C19_Witness ==
  /\ SynthDone
  /\ SegmentFrames > 0
  /\ SegmentFrames < 4 * 2 * crossfade_samples
  /\ \E k \in 1..SegmentFrames :
        /\ audio_data[k][1] # 0
        /\ audio_data[k] # BufferAs("in-out")[k]

\* ------------------------------------------------------------------------
\* C20
\* ------------------------------------------------------------------------
\* samples_per_segment of the latest synthesis (no frames when it is <= 0)
SegmentLength ==
  Max(0, samples_per_chord(synth_args.duration, ChordsFor(synth_args.mood)))

\* segment s (from 0) of the progression: SegmentLength frames of chord
\* progression[s mod len(progression)], frame i at time t = i / SAMPLE_RATE
Segment(progression, s) ==
  [j \in 1..SegmentLength |->
     Frame(progression[(s % Len(progression)) + 1], j - 1,
           samples_per_chord(synth_args.duration, progression))]

RECURSIVE Segments(_, _)
\* segments 0 .. count - 1, one after the other
Segments(progression, count) ==
  IF count = 0 THEN <<>>
  ELSE Segments(progression, count - 1) \o Segment(progression, count - 1)

\* C20: the synthesis renders len(progression) = 4 segments of
\* samples_per_segment frames each, one after the other; segment s is
\* rendered from chord progression[s mod len(progression)], so each chord
\* once and in table order, and its time variable starts from 0.
C20_SegmentsInOrder ==
  SynthRan =>
     \E progression \in {ChordsFor(synth_args.mood)} :
        /\ Len(progression) = 4
        /\ SegmentFrames = Len(progression) * SegmentLength
        /\ audio_data =
             FadeOut(FadeIn(PadSilence(Segments(progression, Len(progression)),
                                       total_samples(synth_args.duration))))

\* four segments, each longer than two crossfade windows and each with
\* sound in the finished buffer, the first two differing at the same
\* local frame
C20_Witness ==
  /\ SynthDone
  /\ SegmentLength > 2 * crossfade_samples
  /\ \A s \in 0..3 :
        \E j \in 1..SegmentLength : audio_data[s * SegmentLength + j][1] # 0
  /\ \E j \in (fade_in_samples + 1)..SegmentLength :
        /\ audio_data[j][1] # audio_data[SegmentLength + j][1]
        /\ 2 * SegmentLength + fade_out_samples <= Len(audio_data)

\* ------------------------------------------------------------------------
\* C16
\* ------------------------------------------------------------------------
\* generate_background_music was called by run_pipeline and raised
MusicRaised == entry = "run_pipeline" /\ pc = "raised"

\* the events of the trace
Events == {trace[j] : j \in 1..Len(trace)}

\* C16: when generate_background_music raises during run_pipeline, the
\* music_generation step is marked failed, an entry for it with the error
\* is appended to the errors of the log, the exception does not leave
\* run_pipeline, and the pipeline goes on to assembly with
\* music_path = None.
C16_MusicFailureIsNotFatal ==
  MusicRaised =>
     /\ gen_log.pipeline_steps["music_generation"] = "failed"
     /\ Len(gen_log.errors) > 0
     /\ Cardinality({j \in 1..Len(gen_log.errors) :
                       gen_log.errors[j] =
                         [step |-> "music_generation", error |-> result]}) = 1
     /\ music_path = None
     /\ gen_log.assets.music = None
     /\ \/ pipe_pc = <<"start", "assembly">>
        \/ <<"start", "assembly">> \in Events
     /\ pipe_pc = Raised =>
          \/ gen_log.pipeline_steps["assembly"] = "failed"
          \/ <<"start", "approval">> \in Events

\* the write of the synthesized file failed, and the run went on through
\* a completed assembly to an approved reel without music
C16_Witness ==
  /\ MusicRaised
  /\ result = "OSError"
  /\ out_file.exists
  /\ gen_log.pipeline_steps["assembly"] = "completed"
  /\ pipe_pc = Returned
  /\ gen_log.status = "approved"

\* ------------------------------------------------------------------------
\* C18
\* ------------------------------------------------------------------------
\* the order the claim gives for the stages
StageOrder ==
  <<"script_generation", "visual_generation", "voice_generation",
    "music_generation", "assembly", "approval">>

StagePos(name) == CHOOSE k \in 1..Len(StageOrder) : StageOrder[k] = name

\* positions of the trace at which a stage starts
StartsAt == {j \in 1..Len(trace) : trace[j][1] = "start"}

\* C18: in every run of run_pipeline the stages start in the order script,
\* visuals, voice, music, assembly, approval, each at most once and none
\* before the stage before it has ended; the approval gate is entered only
\* after the assembly step has completed successfully.
C18_StagesInOrder ==
  entry = "run_pipeline" =>
     /\ \A j, k \in StartsAt :
          j < k => StagePos(trace[j][2]) < StagePos(trace[k][2])
     /\ \A k \in StartsAt :
          StagePos(trace[k][2]) > 1 =>
             \E j \in 1..(k - 1) :
                trace[j] = <<"end", StageOrder[StagePos(trace[k][2]) - 1]>>
     /\ \A k \in 1..Len(trace) :
          trace[k][1] = "end" =>
             \E j \in 1..(k - 1) : trace[j] = <<"start", trace[k][2]>>
     /\ (pipe_pc[2] = "approval" \/ <<"start", "approval">> \in Events) =>
          /\ gen_log.pipeline_steps["assembly"] = "completed"
          /\ <<"end", "assembly">> \in Events
          /\ final_video # None

\* a run that went through all six stages and returned, with the visual
\* step failed on the way
C18_Witness ==
  /\ entry = "run_pipeline"
  /\ pipe_pc = Returned
  /\ Len(trace) = 2 * Len(StageOrder)
  /\ gen_log.pipeline_steps["visual_generation"] = "failed"
  /\ gen_log.pipeline_steps["assembly"] = "completed"

SceneSeconds(scene) == IF scene = NoDuration THEN 5 * DurDen ELSE scene

RECURSIVE ScenesTotal(_, _)
\* the first n scenes together
ScenesTotal(scenes, n) ==
  IF n = 0 THEN 0 ELSE ScenesTotal(scenes, n - 1) + SceneSeconds(scenes[n])

\* C22: without a duration argument generate_background_music synthesizes
\* for the sum of the scenes' durations, a scene without one counting as
\* config.SCENE_DURATION, plus 2.0 s; a duration argument is used as it is,
\* without the 2.0 s.
C22_DurationDefault ==
  (entry = "generate_background_music" /\ SynthRan) =>
     /\ duration = NoDuration =>
          synth_args.duration
            = ScenesTotal(script.scenes, Len(script.scenes)) + 2 * DurDen
     /\ duration # NoDuration => synth_args.duration = duration
     /\ SCENE_DURATION = 5 * DurDen

\* no duration argument, and a script with a scene that has no duration
C22_Witness ==
  /\ entry = "generate_background_music"
  /\ SynthDone
  /\ duration = NoDuration
  /\ \E i \in 1..Len(script.scenes) : script.scenes[i] = NoDuration
  /\ synth_args.duration > 7 * DurDen
  /\ Len(audio_data) > 0

\* ------------------------------------------------------------------------
\* C23
\* ------------------------------------------------------------------------
RECURSIVE StartOfScene(_)
\* start of scene i (from 1) on the timeline: scenes overlap by 0.4 s
StartOfScene(i) ==
  IF i = 1 THEN 0 ELSE StartOfScene(i - 1) + scene_durations[i - 1] - 4

\* C23: the narrations placed on the timeline never overlap: of two placed
\* one after the other, the later starts no earlier than the start of the
\* earlier plus its duration (as trimmed) plus 0.3 s; and no narration
\* starts before the start of its own scene.
C23_NarrationsDoNotOverlap ==
  entry = "assemble_reel" =>
     /\ \A j \in 1..(Len(narration_clips) - 1) :
          /\ narration_clips[j + 1].start
               >= narration_clips[j].start + narration_clips[j].duration + 3
          /\ narration_clips[j].scene < narration_clips[j + 1].scene
     /\ \A j \in 1..Len(narration_clips) :
          narration_clips[j].start >= StartOfScene(narration_clips[j].scene)

\* two narrations placed, the first trimmed, the second pushed back past
\* the start of its scene
C23_Witness ==
  /\ entry = "assemble_reel"
  /\ asm_pc = "returned"
  /\ Len(narration_clips) = 2
  /\ narration_clips[1].duration < narration_lengths[narration_clips[1].scene]
  /\ narration_clips[2].start > StartOfScene(narration_clips[2].scene)

\* ------------------------------------------------------------------------
\* C24
\* ------------------------------------------------------------------------
\* C24: every placed narration ends no later than the visual end of its
\* scene plus the grace of 0.2 s, also when its start was pushed back by
\* the narration before it.
C24_NarrationEndsWithScene ==
  entry = "assemble_reel" =>
     \A j \in 1..Len(narration_clips) :
        narration_clips[j].start + narration_clips[j].duration
           <= StartOfScene(narration_clips[j].scene)
                + scene_durations[narration_clips[j].scene] + 2

\* ------------------------------------------------------------------------
\* C25
\* ------------------------------------------------------------------------
\* C25: a music file of positive duration that is mixed in gives a layer of
\* exactly the video's duration: music shorter than the video is repeated
\* int(video / music) + 1 times, which is never less than the video, and
\* the result is cut to the video's length.
C25_MusicCoversVideo ==
  (entry = "assemble_reel" /\ music_layer.mixed) =>
     /\ music_length > 0
     /\ music_layer.duration = total_video_duration
     /\ music_layer.content >= total_video_duration
     /\ music_length < total_video_duration =>
          /\ music_layer.content % music_length = 0
          /\ music_layer.content - music_length <= total_video_duration
     /\ music_length >= total_video_duration =>
          music_layer.content = music_length

\* music shorter than the video, repeated at least twice
C25_Witness ==
  /\ entry = "assemble_reel"
  /\ asm_pc = "returned"
  /\ music_layer.mixed
  /\ music_length < total_video_duration
  /\ music_layer.content >= 2 * music_length
  /\ music_layer.content > total_video_duration

\* ------------------------------------------------------------------------
\* C26
\* ------------------------------------------------------------------------
FatalSteps == {"script_generation", "assembly"}

\* the stages after a step, in the order of the pipeline
LaterStages(step_name) ==
  {StageOrder[k] : k \in (StagePos(step_name) + 1)..Len(StageOrder)}

\* C26: a failure of script generation or of assembly is fatal: the step
\* is marked failed, the log is finalized with status 'failed', the
\* exception leaves run_pipeline and no later stage, the approval gate in
\* particular, is started.  A failure of visual, voice or music generation
\* is not fatal: the log is not finalized by it and the next stage starts.
C26_FatalAndNonFatal ==
  entry = "run_pipeline" =>
     \A st \in StepNames :
        gen_log.pipeline_steps[st] = "failed" =>
           /\ \E j \in 1..Len(gen_log.errors) : gen_log.errors[j].step = st
           /\ IF st \in FatalSteps
              THEN /\ gen_log.status = "failed"
                   /\ gen_log.saves = 1
                   /\ pipe_pc = Raised
                   /\ \A later \in LaterStages(st) :
                         <<"start", later>> \notin Events
              ELSE /\ \/ pipe_pc = <<"start", StageOrder[StagePos(st) + 1]>>
                      \/ <<"start", StageOrder[StagePos(st) + 1]>> \in Events
                   /\ gen_log.status = "failed" =>
                         \E f \in FatalSteps : gen_log.pipeline_steps[f] = "failed"

\* visuals, voice and music all failed, assembly was started and failed
C26_Witness ==
  /\ entry = "run_pipeline"
  /\ gen_log.pipeline_steps["visual_generation"] = "failed"
  /\ gen_log.pipeline_steps["voice_generation"] = "failed"
  /\ gen_log.pipeline_steps["music_generation"] = "failed"
  /\ gen_log.pipeline_steps["assembly"] = "failed"
  /\ pipe_pc = Raised

\* ------------------------------------------------------------------------
\* C27
\* ------------------------------------------------------------------------
Prompting == <<"prompt", "approval">>

\* the result of request_approval and the log say the same
ResultAgreesWithLog ==
  entry = "run_pipeline" =>
     /\ approved = "True" <=>
           (gen_log.status = "approved" /\ gen_log.approval = "True")
     /\ approved = "False" <=>
           (gen_log.status = "rejected" /\ gen_log.approval = "False")
     /\ gen_log.status = "approved" => gen_log.approval = "True"
     /\ gen_log.status = "rejected" => gen_log.approval = "False"
     /\ gen_log.approval # "None" => gen_log.status \in {"approved", "rejected"}
     /\ auto_approve => prompts = 0 /\ approved # "False"
     /\ pipe_pc = Prompting =>
           /\ approved = None
           /\ gen_log.status = "in_progress"
           /\ gen_log.approval = "None"
           /\ gen_log.saves = 0

\* a turn of the prompt after which request_approval prompts again
PromptsAgain ==
  /\ pipe_pc = Prompting
  /\ pipe_pc' = Prompting
  /\ prompts' = prompts + 1

Terminated == pipe_pc \in {Returned, Raised}

\* the exception came out of request_approval (input() raised), which is
\* none of the terminations the claim is about
RaisedAtGate == pipe_pc = Raised /\ <<"start", "approval">> \in Events

\* the exception came out of script generation or assembly
RaisedInStep ==
  /\ pipe_pc = Raised
  /\ \E f \in FatalSteps : trace[Len(trace)] = <<"end", f>>

\* C28: a run of run_pipeline that ended by returning, or by an exception
\* from script generation or from assembly, has called finalize exactly
\* once, and the status of its log is 'failed', 'approved' or 'rejected',
\* not 'in_progress'; finalize is never called a second time.  (That such
\* a run can end 'approved' with a non-empty errors list is C28_Witness.)
C28_FinalizedOnce ==
  entry = "run_pipeline" =>
     /\ gen_log.saves <= 1
     /\ (pipe_pc = Returned \/ RaisedInStep) =>
           /\ gen_log.saves = 1
           /\ gen_log.status \in {"failed", "approved", "rejected"}
           /\ gen_log.status = "failed" <=> pipe_pc = Raised
     /\ (Terminated /\ ~RaisedAtGate) => RaisedInStep \/ pipe_pc = Returned

\* a run whose music generation failed ends approved: finalize was called
\* once and the errors list of the log is not empty
C28_Witness ==
  /\ entry = "run_pipeline"
  /\ pipe_pc = Returned
  /\ gen_log.status = "approved"
  /\ gen_log.saves = 1
  /\ Len(gen_log.errors) > 0
  /\ gen_log.pipeline_steps["music_generation"] = "failed"

\* ------------------------------------------------------------------------
\* C29
\* ------------------------------------------------------------------------
\* frames the chord loop of the latest synthesis appended
ChordLoopFrames ==
  Len(ChordFrames(<<>>, ChordsFor(synth_args.mood),
                  samples_per_chord(synth_args.duration,
                                    ChordsFor(synth_args.mood))))

\* C29: for every duration >= 0 the chord segments of _synthesize_ambient
\* produce 4 * samples_per_chord frames, which is at most total_samples;
\* so the slice to total_samples before writing drops no frame, and the
\* silent frames appended after the segments are at most 3.
C29_SegmentsFit ==
  (SynthDone /\ synth_args.duration >= 0) =>
     \E total \in {total_samples(synth_args.duration)} :
        /\ ChordLoopFrames =
             4 * samples_per_chord(synth_args.duration,
                                   ChordsFor(synth_args.mood))
        /\ ChordLoopFrames <= total
        /\ Len(audio_data) = total
        /\ Len(out_file.frames) = Len(audio_data)
        /\ total - ChordLoopFrames <= 3
        /\ \A k \in 1..Len(audio_data) :
             k > ChordLoopFrames => audio_data[k] = <<0, 0>>

\* a synthesis whose segments are not empty and fall three frames short of
\* total_samples
C29_Witness ==
  /\ SynthDone
  /\ synth_args.duration >= 0
  /\ ChordLoopFrames > 0
  /\ Len(audio_data) - ChordLoopFrames = 3
  /\ Len(out_file.frames) = Len(audio_data)

\* ------------------------------------------------------------------------
\* C30
\* ------------------------------------------------------------------------
\* complete_step is the only writer of timings[step_name] and fail_step
\* leaves the entry in place, so a failed step with a timings entry is a
\* step that was marked completed before it was marked failed.
\*
\* C30: the status of a pipeline step only moves running -> completed or
\* running -> failed; a step once marked completed during run_pipeline is
\* never marked failed afterwards, script_generation with a custom script
\* that lacks a title, scenes or a scene field included.
C30_CompletedNeverFails ==
  entry = "run_pipeline" =>
     \A st \in StepNames :
        gen_log.pipeline_steps[st] = "failed" => st \notin gen_log.timings

=============================================================================
